---- MODULE Spec2Model ----
(***************************************************************************)
(* Lex-BAR: a Discord bot that registers Beyond All Reason usernames,      *)
(* refreshes their large-team skill from an upstream API and posts a       *)
(* leaderboard.  The model follows src/app/lex.py: the players table, the  *)
(* API semaphore, refresh_all_player_stats with its gathered tasks, and    *)
(* the register / registeruser / updateuser commands, all running on one   *)
(* asyncio event loop (a step of the model is the code between two awaits).*)
(* Time is a logical clock, Python's None is -1, and the database raising  *)
(* inside the batch apply is a step of its own.                            *)
(***************************************************************************)
EXTENDS Integers, Sequences, FiniteSets, TLC

\* Python's None for the nullable numeric columns and values (skill,
\* skillUncertainty, lastStatsUpdate, registeredBy); real values are >= 0.
None == -1

\* lex.py:21
MAX_CONCURRENT_FETCHES == 1

\* ---- bounds of the model ----
MaxClock == 1       \* datetime.utcnow() ranges over 0..MaxClock
MaxCmds == 1        \* register/registeruser/updateuser commands issued in all

\* Discord users, and the usernames typed into the commands.
Members == 1..2
BarNames == {"alpha", "beta"}
\* Invocations of refresh_all_player_stats: one next to the commands (Spec),
\* two concurrent ones on their own (SpecRefresh).
Runs == {1}
ConcurrentRuns == {1, 2}
\* The usernames of the end-to-end scenarios.
AllNames == BarNames \cup {"gamma", "delta"}

\* ---- the upstream API (lex.py:195-229) --------------------------------
\* A response of GET API_BASE/<username>: httpok = FALSE is any transport
\* failure, timeout or non-2xx status (raise_for_status); otherwise the JSON
\* body, a list (islist) of candidates or something else.  A candidate and
\* an entry of its skill list are JSON objects (isobj) or something else.
SkillEntry(g, s, u) ==
    [isobj |-> TRUE, gamemode |-> g, skill |-> s, skillUncertainty |-> u]
JunkEntry ==
    [isobj |-> FALSE, gamemode |-> None, skill |-> None, skillUncertainty |-> None]
Candidate(sl) == [isobj |-> TRUE, skill |-> sl]
JunkCandidate == [isobj |-> FALSE, skill |-> << >>]
Body(items) == [httpok |-> TRUE, islist |-> TRUE, items |-> items]

RespError == [httpok |-> FALSE, islist |-> FALSE, items |-> << >>]
RespNonList == [httpok |-> TRUE, islist |-> FALSE, items |-> << >>]
RespEmpty == Body(<< >>)
Resp1500 == Body(<< Candidate(<< SkillEntry(3, 1500, 15) >>) >>)
Resp1200 == Body(<< Candidate(<< SkillEntry(1, 900, 9), SkillEntry(3, 1200, 12),
                                 SkillEntry(3, 700, 7) >>),
                    Candidate(<< SkillEntry(3, 1500, 15) >>) >>)
RespNoLargeTeam == Body(<< Candidate(<< SkillEntry(1, 900, 9) >>) >>)
RespJunk == Body(<< JunkCandidate >>)
RespJunkSkill == Body(<< Candidate(<< JunkEntry, SkillEntry(3, 1500, 15) >>) >>)

Responses ==
    {RespError, RespNonList, RespEmpty, Resp1500, Resp1200, RespNoLargeTeam, RespJunk,
     RespJunkSkill}

\* The last entry of skill_list with gamemode == 3, or None.
NoEntry == SkillEntry(None, None, None)
RECURSIVE large_team_last(_)
large_team_last(skill_list) ==
    IF skill_list = << >> THEN NoEntry
    ELSE LET later == large_team_last(Tail(skill_list))
         IN  IF later # NoEntry THEN later
             ELSE IF Head(skill_list).gamemode = 3 THEN Head(skill_list)
             ELSE NoEntry

\* lex.py:212-216: the first entry of skill_list with gamemode == 3, or None;
\* s.get raises on an entry that is not an object, and that entry is the
\* value here.
RECURSIVE large_team(_)
large_team(skill_list) ==
    IF skill_list = << >> THEN NoEntry
    ELSE IF ~Head(skill_list).isobj THEN Head(skill_list)
    ELSE IF Head(skill_list).gamemode = 3 THEN Head(skill_list)
    ELSE large_team(Tail(skill_list))

\* The value of fetch_player_stats(username) for an upstream response.
\* raised: an exception leaves the function; success/player as in the dict
\* it returns (player = FALSE is "player": None).
FetchResult(raised, success, player, s, u) ==
    [raised |-> raised, success |-> success, player |-> player,
     skill |-> s, skillUncertainty |-> u]

fetch_player_stats(resp) ==
    IF ~resp.httpok THEN FetchResult(FALSE, FALSE, FALSE, None, None)   \* 206-207
    ELSE IF resp.islist /\ Len(resp.items) > 0                           \* 209
    THEN IF ~resp.items[1].isobj
         THEN FetchResult(TRUE, FALSE, FALSE, None, None)  \* player.get raises (211)
         ELSE LET lt == large_team(resp.items[1].skill)
              IN  IF ~lt.isobj
                  THEN FetchResult(TRUE, FALSE, FALSE, None, None)  \* s.get raises (214)
                  ELSE FetchResult(FALSE, TRUE, TRUE, lt.skill, lt.skillUncertainty)
    ELSE FetchResult(FALSE, TRUE, FALSE, None, None)                     \* 229

\* ---- update_single_player_stats (lex.py:232-254) ------------------------
\* The value a task hands to gather: the dict of lines 242-248, or None
\* (success = FALSE) on a failed lookup (251) and on an exception (254).
TaskResult(succ, id, s, u) ==
    [success |-> succ, discordId |-> id, skill |-> s, skillUncertainty |-> u]
NoResult == TaskResult(FALSE, None, None, None)

update_single_player_stats(player_data, fr) ==
    IF fr.raised THEN NoResult
    ELSE IF fr.success /\ fr.player
    THEN TaskResult(TRUE, player_data.discordId, fr.skill, fr.skillUncertainty)
    ELSE NoResult

\* ---- the players table (models.py:7-16) ---------------------------------
Player(id, name, bar, at, by, s, u, upd) ==
    [discordId |-> id, discordUsername |-> name, barUsername |-> bar,
     registeredAt |-> at, registeredBy |-> by,
     skill |-> s, skillUncertainty |-> u, lastStatsUpdate |-> upd]

\* The rating triple of a row.
Triple(p) == << p.skill, p.skillUncertainty, p.lastStatsUpdate >>

\* interaction.user.name of a member
UserName(m) == m

VARIABLES
    LEX_PLAYERS,     \* committed rows of the table: discordId -> Player
    now,             \* what datetime.utcnow() returns
    api_semaphore,   \* free permits of the asyncio.Semaphore
    runs,            \* the invocations of refresh_all_player_stats
    cmds,            \* commands waiting for their fetch_player_stats
    cmdsLeft,        \* commands that may still be issued
    upstream,        \* what fetch_player_stats may return for each username
    LEX_SCHEDULER_CONFIG,   \* committed rows of the scheduler table, by id
    tick,            \* the scheduled_leaderboard task: its timer and its body
    outbox,          \* what the scheduled task did last for each guild
    call             \* the last call of a function applied on its own

vars ==
    << LEX_PLAYERS, now, api_semaphore, runs, cmds, cmdsLeft, upstream,
       LEX_SCHEDULER_CONFIG, tick, outbox, call >>

\* What the player commands and the refresh leave alone.
scheduler_vars == << LEX_SCHEDULER_CONFIG, tick, outbox, call >>


\* ---- save_or_update_player (lex.py:67-98) -------------------------------
\* The table after the call at time t (committed at line 98).
save_or_update_player(table, discord_id, discord_username, bar_username, registered_by, skill, skill_uncertainty, t) ==
    IF discord_id \in DOMAIN table
    THEN LET p0 == table[discord_id]
             p1 == [p0 EXCEPT !.discordUsername = discord_username,        \* 75
                              !.barUsername = bar_username,                \* 76
                              !.registeredAt = t]                          \* 77
             p2 == IF registered_by # None
                   THEN [p1 EXCEPT !.registeredBy = registered_by] ELSE p1 \* 78-79
             p3 == IF skill # None
                   THEN [p2 EXCEPT !.skill = skill,                        \* 80-83
                                   !.skillUncertainty = skill_uncertainty,
                                   !.lastStatsUpdate = t]
                   ELSE p2
         IN  [table EXCEPT ![discord_id] = p3]
    ELSE (discord_id :> Player(discord_id, discord_username, bar_username, t,
                               registered_by, skill, skill_uncertainty,
                               IF skill # None THEN t ELSE None)) @@ table

\* ---- refresh_all_player_stats (lex.py:139-192) --------------------------
Summary(total, updated, failed, error) ==
    [total |-> total, updated |-> updated, failed |-> failed, error |-> error]
NoSummary == Summary(None, None, None, FALSE)

NoFetch == FetchResult(FALSE, FALSE, FALSE, None, None)
Task(st, fetched, res) == [st |-> st, fetched |-> fetched, res |-> res]

\* db.query(Player).all() (143): the rows, here in discordId order.
RECURSIVE RowsInOrder(_, _)
RowsInOrder(table, ids) ==
    IF ids = {} THEN << >>
    ELSE LET m == CHOOSE x \in ids : \A y \in ids : x <= y
         IN  << table[m] >> \o RowsInOrder(table, ids \ {m})
all_players(table) == RowsInOrder(table, DOMAIN table)

\* lines 152-158
player_data_list(players) ==
    [i \in 1..Len(players) |->
        [discordId |-> players[i].discordId, barUsername |-> players[i].barUsername]]

\* gather without return_exceptions=True over tasks that let a failure out:
\* it returns at the first failed task.
gather_fail_fast(tasks) ==
    \/ \A i \in 1..Len(tasks) : tasks[i].st = "done"
    \/ \E i \in 1..Len(tasks) : tasks[i].st = "done" /\ ~tasks[i].res.success

\* asyncio.gather(*update_tasks, return_exceptions=True) (165) returns when
\* every task has finished, whatever each of them returned or raised.
gather_returns(tasks) == \A i \in 1..Len(tasks) : tasks[i].st = "done"

\* Only the skill is assigned: the row keeps its old uncertainty and time.
set_rating_skill_only(player, result, t) ==
    [player EXCEPT !.skill = result.skill]

\* The row is written as save_or_update_player writes an existing one, with
\* registeredAt set anew.
set_rating_and_registered(player, result, t) ==
    [player EXCEPT !.skill = result.skill,
                   !.skillUncertainty = result.skillUncertainty,
                   !.lastStatsUpdate = t,
                   !.registeredAt = t]

\* lines 176-178: the three assignments on the row loaded at line 174.
set_rating(player, result, t) ==
    [player EXCEPT !.skill = result.skill,
                   !.skillUncertainty = result.skillUncertainty,
                   !.lastStatsUpdate = t]

\* line 173: isinstance(result, dict) and result and result.get("success")
is_success(result) == result.success

\* lines 169-182: "for result in results" from result i on, over the rows
\* of the session; on an existing player the assignments of 176-178.
RECURSIVE apply_results(_, _, _, _, _, _)
apply_results(table, results, i, updated_count, failed_count, t) ==
    IF i > Len(results)
    THEN [table |-> table, updated_count |-> updated_count,
          failed_count |-> failed_count]
    ELSE LET result == results[i]
             id == result.discordId
         IN  IF is_success(result)                                         \* 173
             THEN IF id \in DOMAIN table                                   \* 174-175
                  THEN apply_results([table EXCEPT ![id] = set_rating(@, result, t)],
                            results, i + 1, updated_count + 1, failed_count, t)
                  ELSE apply_results(table, results, i + 1, updated_count,
                            failed_count, t)
             ELSE apply_results(table, results, i + 1, updated_count,      \* 181-182
                        failed_count + 1, t)

IdleRun ==
    [pc |-> "idle", players |-> << >>, tasks |-> << >>, summary |-> NoSummary]

InFlightTasks ==
    Cardinality(UNION {{<< r, i >> : i \in {j \in DOMAIN runs[r].tasks :
                                               runs[r].tasks[j].st = "fetching"}} :
                       r \in DOMAIN runs})
\* Calls of fetch_player_stats that have started and not yet returned.
InFlight == InFlightTasks + Cardinality(cmds)

\* The table the process finds when it starts: the rows earlier /register
\* and /registeruser commands have left, here members 1..k registered at
\* time 0, the odd ones by themselves with skill 1100, the even ones by
\* member 1 and unranked.
RECURSIVE TableUpTo(_)
TableUpTo(k) ==
    IF k = 0 THEN << >>
    ELSE save_or_update_player(TableUpTo(k - 1), k, UserName(k),
            IF k % 2 = 1 THEN "alpha" ELSE "beta",
            IF k % 2 = 1 THEN None ELSE 1,
            IF k % 2 = 1 THEN 1100 ELSE None,
            IF k % 2 = 1 THEN 11 ELSE None, 0)
InitialTables == {TableUpTo(k) : k \in 0..Cardinality(Members)}

\* The tables of the two end-to-end scenarios: alpha, beta and gamma
\* registered and not yet ranked; delta registered with skill 1100.
TableABG ==
    LET t1 == save_or_update_player(<< >>, 1, UserName(1), "alpha", None, None, None, 0)
        t2 == save_or_update_player(t1, 2, UserName(2), "beta", None, None, None, 0)
    IN  save_or_update_player(t2, 3, UserName(3), "gamma", None, None, None, 0)
TableDelta == save_or_update_player(<< >>, 4, UserName(4), "delta", None, 1100, 11, 0)

\* The API answers anything at any time; in the scenarios it answers 1500
\* for alpha, no large-team rating for beta, 1200 for gamma and times out
\* for delta.
Fetches(responses) == {fetch_player_stats(resp) : resp \in responses}
AnyUpstream == [u \in AllNames |-> Fetches(Responses)]
ScenarioUpstream ==
    [u \in AllNames |->
        CASE u = "alpha" -> Fetches({Resp1500})
          [] u = "beta" -> Fetches({RespNoLargeTeam})
          [] u = "gamma" -> Fetches({Resp1200})
          [] u = "delta" -> Fetches({RespError})]

\* Guilds, the channels of a /scheduleleaderboard command (bot.get_channel
\* finds those of KnownChannels, the other one has been deleted), and a day
\* of Hours x Minutes minutes.
Guilds == {1, 2}
Channels == {10, 20}
KnownChannels == {10}
Hours == 0..1
Minutes == 0..1
\* The wall clock passes the minutes of one day.
MaxMinute == Cardinality(Hours) * Cardinality(Minutes) - 1
MaxScheduleCmds == 2    \* schedule commands issued in all

\* now.hour and now.minute (684-686) of the wall clock at minute t.
hour_of(t) == (t \div Cardinality(Minutes)) % Cardinality(Hours)
minute_of(t) == t % Cardinality(Minutes)

\* The scheduled task between two iterations: next_iteration is the minute
\* its timer sleeps until; at, hour, minute, configs and i belong to a
\* running iteration.
IdleTick(next_iteration) ==
    [pc |-> "sleep", next_iteration |-> next_iteration, at |-> None,
     hour |-> None, minute |-> None, configs |-> << >>, i |-> 0]

\* What the scheduled task has done for a guild: nothing yet.
NoEvent == [at |-> None, kind |-> "none", board |-> << >>]

\* No function has been called on its own.
NoCall == [op |-> "none"]

InitWith(T, R, n, up) ==
    /\ LEX_SCHEDULER_CONFIG = << >>
    /\ tick = IdleTick(0)
    /\ outbox = [g \in Guilds |-> NoEvent]
    /\ call = NoCall
    /\ LEX_PLAYERS \in T
    /\ upstream = up
    /\ now = 0
    /\ api_semaphore = MAX_CONCURRENT_FETCHES
    /\ runs = [r \in R |-> IdleRun]
    /\ cmds = {}
    /\ cmdsLeft = n

Init == InitWith(InitialTables, Runs, MaxCmds, AnyUpstream)
InitRefresh == InitWith(InitialTables, ConcurrentRuns, 0, AnyUpstream)
InitE2E == InitWith({TableABG, TableDelta}, ConcurrentRuns, 0, ScenarioUpstream)

\* The wall clock advances.
Tick ==
    /\ now < MaxClock
    /\ now' = now + 1
    /\ UNCHANGED << LEX_PLAYERS, api_semaphore, runs, cmds, cmdsLeft, upstream >>
    /\ UNCHANGED scheduler_vars

\* lines 141-165: read the players; none: return zeros; else start one task
\* per player and await gather.
RefreshStart(r) ==
    /\ runs[r].pc = "idle"
    /\ \A q \in DOMAIN runs : q < r => runs[q].pc # "idle"
    /\ LET players == all_players(LEX_PLAYERS)
           pdl == player_data_list(players)
       IN  IF Len(players) = 0
           THEN runs' = [runs EXCEPT ![r] =
                    [IdleRun EXCEPT !.pc = "done", !.summary = Summary(0, 0, 0, FALSE)]]
           ELSE runs' = [runs EXCEPT ![r] =
                    [IdleRun EXCEPT !.pc = "gather", !.players = pdl,
                        !.tasks = [i \in 1..Len(pdl) |-> Task("waiting", NoFetch, NoResult)]]]
    /\ UNCHANGED << LEX_PLAYERS, now, api_semaphore, cmds, cmdsLeft, upstream >>
    /\ UNCHANGED scheduler_vars

\* line 234: a task enters "async with api_semaphore" and sends its request.
TaskAcquire(r, i) ==
    /\ runs[r].pc = "gather"
    /\ i \in 1..Len(runs[r].tasks)
    /\ runs[r].tasks[i].st = "waiting"
    /\ api_semaphore > 0
    /\ api_semaphore' = api_semaphore - 1
    /\ runs' = [runs EXCEPT ![r].tasks[i].st = "fetching"]
    /\ UNCHANGED << LEX_PLAYERS, now, cmds, cmdsLeft, upstream >>
    /\ UNCHANGED scheduler_vars

\* A lookup that ends with an error leaves the "async with" block without
\* giving its permit back.
TaskCompleteKeepsPermit(r, i, fr) ==
    /\ runs[r].pc = "gather"
    /\ i \in 1..Len(runs[r].tasks)
    /\ runs[r].tasks[i].st = "fetching"
    /\ fr \in upstream[runs[r].players[i].barUsername]
    /\ runs' = [runs EXCEPT ![r].tasks[i] =
            Task("done", fr, update_single_player_stats(runs[r].players[i], fr))]
    /\ api_semaphore' = IF fr.raised \/ ~fr.success THEN api_semaphore
                        ELSE api_semaphore + 1
    /\ UNCHANGED << LEX_PLAYERS, now, cmds, cmdsLeft, upstream >>
    /\ UNCHANGED scheduler_vars

\* lines 237-254: the response arrives, the task returns its result and
\* leaves the "async with" block, which releases the permit.
TaskComplete(r, i, fr) ==
    /\ runs[r].pc = "gather"
    /\ i \in 1..Len(runs[r].tasks)
    /\ runs[r].tasks[i].st = "fetching"
    /\ fr \in upstream[runs[r].players[i].barUsername]
    /\ runs' = [runs EXCEPT ![r].tasks[i] =
            Task("done", fr, update_single_player_stats(runs[r].players[i], fr))]
    /\ api_semaphore' = api_semaphore + 1
    /\ UNCHANGED << LEX_PLAYERS, now, cmds, cmdsLeft, upstream >>
    /\ UNCHANGED scheduler_vars

\* The results gather hands back, in the order of the players.
results_of(tasks) == [i \in 1..Len(tasks) |-> tasks[i].res]

\* The tasks of run r in the order in which they finished, as the log of
\* finished tasks in call has it.
completed(r) ==
    LET of_r(e) == e[1] = r
    IN  SelectSeq(IF call.op = "gather" THEN call.order ELSE << >>, of_r)

\* The batch apply takes the k-th result to finish for the k-th player read.
RefreshApplyAsCompleted(r) ==
    /\ runs[r].pc = "gather"
    /\ gather_returns(runs[r].tasks)
    /\ LET results == [k \in 1..Len(runs[r].tasks) |->
                LET res == runs[r].tasks[completed(r)[k][2]].res
                IN  IF res.success
                    THEN [res EXCEPT !.discordId = runs[r].players[k].discordId]
                    ELSE res]
           a == apply_results(LEX_PLAYERS, results, 1, 0, 0, now)
       IN  /\ LEX_PLAYERS' = a.table
           /\ runs' = [runs EXCEPT ![r] =
                [IdleRun EXCEPT !.pc = "done",
                    !.summary = Summary(Len(runs[r].players), a.updated_count,
                                        a.failed_count, FALSE)]]
    /\ UNCHANGED << now, api_semaphore, cmds, cmdsLeft, upstream >>
    /\ UNCHANGED scheduler_vars

\* lines 165-187: gather returns and, with no await in between, the results
\* are applied in a new session, committed in one transaction (184) and the
\* summary is returned.
RefreshApply(r) ==
    /\ runs[r].pc = "gather"
    /\ gather_returns(runs[r].tasks)
    /\ LET a == apply_results(LEX_PLAYERS, results_of(runs[r].tasks), 1, 0, 0, now)
       IN  /\ LEX_PLAYERS' = a.table
           /\ runs' = [runs EXCEPT ![r] =
                [IdleRun EXCEPT !.pc = "done",
                    !.summary = Summary(Len(runs[r].players), a.updated_count,
                                        a.failed_count, FALSE)]]
    /\ UNCHANGED << now, api_semaphore, cmds, cmdsLeft, upstream >>
    /\ UNCHANGED scheduler_vars

\* lines 188-192: the store raises inside that block, at a query of line
\* 174 or at the commit (the session reaches the database only for a result
\* with success): the summary of line 190, and db.close() drops what the
\* session had not committed.
RefreshApplyFails(r) ==
    /\ runs[r].pc = "gather"
    /\ gather_returns(runs[r].tasks)
    /\ \E i \in 1..Len(runs[r].tasks) : is_success(runs[r].tasks[i].res)
    /\ runs' = [runs EXCEPT ![r] =
            [IdleRun EXCEPT !.pc = "done", !.summary = Summary(0, 0, 0, TRUE)]]
    /\ UNCHANGED << LEX_PLAYERS, now, api_semaphore, cmds, cmdsLeft, upstream >>
    /\ UNCHANGED scheduler_vars

\* ---- commands ------------------------------------------------------------
\* A command waiting for its lookup: n tells the interactions apart; loaded
\* is the rating triple of the row updateuser holds in its session.
Cmd(kind, user, by, username, loaded) ==
    [n |-> cmdsLeft, kind |-> kind, user |-> user, by |-> by, username |-> username,
     loaded |-> loaded]
NotLoaded == << None, None, None >>

\* register (370-372): interaction.user asks for username; the lookup is
\* awaited outside the semaphore.
RegisterBegin(m, username) ==
    /\ cmdsLeft > 0
    /\ cmds' = cmds \cup {Cmd("register", m, None, username, NotLoaded)}
    /\ cmdsLeft' = cmdsLeft - 1
    /\ UNCHANGED << LEX_PLAYERS, now, api_semaphore, runs, upstream >>
    /\ UNCHANGED scheduler_vars

\* registeruser (414-416): member by registers user.
RegisterUserBegin(by, user, username) ==
    /\ cmdsLeft > 0
    /\ cmds' = cmds \cup {Cmd("registeruser", user, by, username, NotLoaded)}
    /\ cmdsLeft' = cmdsLeft - 1
    /\ UNCHANGED << LEX_PLAYERS, now, api_semaphore, runs, upstream >>
    /\ UNCHANGED scheduler_vars

\* updateuser (495-506): the first row whose barUsername matches (ilike; the
\* names here are lower case); the lookup for player.barUsername is awaited
\* with the row held by the session.
UpdateUserBegin(username) ==
    /\ cmdsLeft > 0
    /\ \E id \in DOMAIN LEX_PLAYERS :
        /\ LEX_PLAYERS[id].barUsername = username
        /\ cmds' = cmds \cup {Cmd("updateuser", id, None, LEX_PLAYERS[id].barUsername,
                                   Triple(LEX_PLAYERS[id]))}
    /\ cmdsLeft' = cmdsLeft - 1
    /\ UNCHANGED << LEX_PLAYERS, now, api_semaphore, runs, upstream >>
    /\ UNCHANGED scheduler_vars

\* register, lines 372-392, once the lookup has returned fr.
register(table, c, fr, t) ==
    IF fr.raised \/ ~fr.success THEN table                               \* 374-376
    ELSE save_or_update_player(table, c.user, UserName(c.user), c.username, None,
            IF fr.player THEN fr.skill ELSE None,
            IF fr.player THEN fr.skillUncertainty ELSE None, t)

\* registeruser, lines 416-439.
registeruser(table, c, fr, t) ==
    IF fr.raised \/ ~fr.success THEN table                               \* 418-420
    ELSE IF ~fr.player THEN table                                        \* 422-424
    ELSE save_or_update_player(table, c.user, UserName(c.user), c.username, c.by,
            fr.skill, fr.skillUncertainty, t)

\* updateuser, lines 506-514 and 531-534.  The three assignments are made
\* on the object loaded before the await; the commit updates the columns
\* whose value differs from the loaded one and leaves the others as the
\* table has them.
updateuser(table, c, fr, t) ==
    IF ~fr.raised /\ fr.success /\ fr.player
    THEN [table EXCEPT ![c.user] =
            [@ EXCEPT !.skill = IF fr.skill # c.loaded[1] THEN fr.skill ELSE @,
                      !.skillUncertainty =
                            IF fr.skillUncertainty # c.loaded[2]
                            THEN fr.skillUncertainty ELSE @,
                      !.lastStatsUpdate = IF t # c.loaded[3] THEN t ELSE @]]
    ELSE table

\* The lookup of command c returns and the command runs to its end.
CmdComplete(c, fr) ==
    /\ c \in cmds
    /\ fr \in upstream[c.username]
    /\ LEX_PLAYERS' =
        CASE c.kind = "register" -> register(LEX_PLAYERS, c, fr, now)
          [] c.kind = "registeruser" -> registeruser(LEX_PLAYERS, c, fr, now)
          [] c.kind = "updateuser" -> updateuser(LEX_PLAYERS, c, fr, now)
    /\ cmds' = cmds \ {c}
    /\ UNCHANGED << now, api_semaphore, runs, cmdsLeft, upstream >>
    /\ UNCHANGED scheduler_vars

NextRefresh ==
    \/ Tick
    \/ \E r \in DOMAIN runs : RefreshStart(r)
    \/ \E r \in DOMAIN runs : \E i \in DOMAIN runs[r].tasks : TaskAcquire(r, i)
    \/ \E r \in DOMAIN runs : \E i \in DOMAIN runs[r].tasks :
            \E fr \in upstream[runs[r].players[i].barUsername] : TaskComplete(r, i, fr)
    \/ \E r \in DOMAIN runs : RefreshApply(r)
    \/ \E r \in DOMAIN runs : RefreshApplyFails(r)

NextCommand ==
    \/ \E m \in Members, u \in BarNames : RegisterBegin(m, u)
    \/ \E by \in Members : \E m \in Members \ {by}, u \in BarNames :
            RegisterUserBegin(by, m, u)
    \/ \E u \in BarNames : UpdateUserBegin(u)
    \/ \E c \in cmds : \E fr \in upstream[c.username] : CmdComplete(c, fr)

Next == NextRefresh \/ NextCommand

\* The bot: commands and one refresh on the event loop.
Spec == Init /\ [][Next]_vars

\* Concurrent refreshes (/refresh commands and scheduled ticks) on their own.
SpecRefresh == InitRefresh /\ [][NextRefresh]_vars

\* The end-to-end scenarios: refreshes over [alpha, beta, gamma] or [delta]
\* against the upstream of the scenario.
SpecE2E == InitE2E /\ [][NextRefresh]_vars

\* The event loop runs every coroutine that can go on: a task whose
\* "async with api_semaphore" (234) finds a permit enters it, a refresh whose
\* gather (165) has every result goes on to line 168; and every request ends,
\* at the latest by the ClientTimeout of 15 s (200).
TaskSlots == 1..Cardinality(Members)
RefreshFairness ==
    /\ \A r \in ConcurrentRuns : \A i \in TaskSlots : WF_vars(TaskAcquire(r, i))
    /\ \A r \in ConcurrentRuns : \A i \in TaskSlots :
            WF_vars(\E fr \in Fetches(Responses) : TaskComplete(r, i, fr))
    /\ \A r \in ConcurrentRuns : WF_vars(RefreshApply(r) \/ RefreshApplyFails(r))

\* Concurrent refreshes on an event loop that keeps running, with an upstream
\* whose every answer takes one of the ways out of a task: a rating (242),
\* a failure returned (251) and an exception (254).
GateUpstream == [u \in AllNames |-> Fetches({Resp1500, RespError, RespJunk})]
NextGate ==
    \/ \E r \in DOMAIN runs : RefreshStart(r)
    \/ \E r \in DOMAIN runs : \E i \in DOMAIN runs[r].tasks : TaskAcquire(r, i)
    \/ \E r \in DOMAIN runs : \E i \in DOMAIN runs[r].tasks :
            \E fr \in upstream[runs[r].players[i].barUsername] : TaskComplete(r, i, fr)
    \/ \E r \in DOMAIN runs : RefreshApply(r)
    \/ \E r \in DOMAIN runs : RefreshApplyFails(r)
SpecGate ==
    /\ InitWith(InitialTables, ConcurrentRuns, 0, GateUpstream)
    /\ [][NextGate]_vars
    /\ RefreshFairness

\* The step of TaskComplete, with the finished task added to the log of
\* finished tasks: the order in which the lookups of lines 164-165 end.
TaskCompleteLogged(r, i, fr) ==
    /\ runs[r].pc = "gather"
    /\ i \in 1..Len(runs[r].tasks)
    /\ runs[r].tasks[i].st = "fetching"
    /\ fr \in upstream[runs[r].players[i].barUsername]
    /\ runs' = [runs EXCEPT ![r].tasks[i] =
            Task("done", fr, update_single_player_stats(runs[r].players[i], fr))]
    /\ api_semaphore' = api_semaphore + 1
    /\ call' = [op |-> "gather",
                order |-> Append(IF call.op = "gather" THEN call.order ELSE << >>,
                                 << r, i >>)]
    /\ UNCHANGED << LEX_PLAYERS, now, cmds, cmdsLeft, upstream >>
    /\ UNCHANGED << LEX_SCHEDULER_CONFIG, tick, outbox >>

\* Concurrent refreshes whose lookups end in any order, against an upstream
\* that answers a rating, no large-team rating, or an error.
OrderUpstream ==
    [u \in AllNames |-> Fetches({Resp1500, Resp1200, RespNoLargeTeam, RespError})]
NextOrder ==
    \/ Tick
    \/ \E r \in DOMAIN runs : RefreshStart(r)
    \/ \E r \in DOMAIN runs : \E i \in DOMAIN runs[r].tasks : TaskAcquire(r, i)
    \/ \E r \in DOMAIN runs : \E i \in DOMAIN runs[r].tasks :
            \E fr \in upstream[runs[r].players[i].barUsername] :
                TaskCompleteLogged(r, i, fr)
    \/ \E r \in DOMAIN runs : RefreshApply(r)
    \/ \E r \in DOMAIN runs : RefreshApplyFails(r)
SpecOrder ==
    InitWith(InitialTables, ConcurrentRuns, 0, OrderUpstream) /\ [][NextOrder]_vars

\* ---- save_or_update_player on its own ---------------------------------------
\* The arguments register and registeruser can pass: a member, the name typed,
\* who registers (None for oneself) and the rating of the lookup, where the
\* upstream entry may lack its skillUncertainty.
Ratings == {<< None, None >>, << 1200, 12 >>, << 1500, 15 >>, << 1500, None >>}

Upsert(discord_id, bar_username, registered_by, rating) ==
    /\ LEX_PLAYERS' = save_or_update_player(LEX_PLAYERS, discord_id,
            UserName(discord_id), bar_username, registered_by,
            rating[1], rating[2], now)
    /\ call' = [op |-> "save_or_update_player", discord_id |-> discord_id,
                discord_username |-> UserName(discord_id),
                bar_username |-> bar_username, registered_by |-> registered_by,
                skill |-> rating[1], skill_uncertainty |-> rating[2]]
    /\ UNCHANGED << now, api_semaphore, runs, cmds, cmdsLeft, upstream >>
    /\ UNCHANGED << LEX_SCHEDULER_CONFIG, tick, outbox >>

NextUpsert ==
    \/ Tick
    \/ \E id \in Members, u \in BarNames, by \in Members \cup {None}, rating \in Ratings :
            Upsert(id, u, by, rating)

SpecUpsert == InitWith(InitialTables, {}, 0, AnyUpstream) /\ [][NextUpsert]_vars

\* ---- the scheduler table (models.py:18-25, lex.py:102-136) ----------------
SchedulerConfig(id, guild_id, channel_id, schedule_hour, schedule_minute, enabled) ==
    [id |-> id, guild_id |-> guild_id, channel_id |-> channel_id,
     schedule_hour |-> schedule_hour, schedule_minute |-> schedule_minute,
     enabled |-> enabled]

\* An Optional[bool] argument: << >> is None, << b >> is b.
NoBool == << >>
Some(b) == << b >>

\* .filter(SchedulerConfig.guild_id == guild_id).first(): the ids of the
\* rows of the guild, and the first of them.
rows_of(table, guild_id) == {i \in DOMAIN table : table[i].guild_id = guild_id}
first_of(ids) == CHOOSE i \in ids : \A j \in ids : i <= j

\* Every argument is written, given or not.
save_scheduler_config_overwrite(table, guild_id, channel_id, schedule_hour, schedule_minute, enabled) ==
    LET found == rows_of(table, guild_id)
        e == IF enabled # NoBool THEN enabled[1] ELSE FALSE
    IN  IF found # {}
        THEN [table EXCEPT ![first_of(found)] =
                SchedulerConfig(@.id, guild_id, channel_id, schedule_hour,
                                schedule_minute, e)]
        ELSE Append(table, SchedulerConfig(Len(table) + 1, guild_id, channel_id,
                                           schedule_hour, schedule_minute, e))

\* save_scheduler_config (107-136): the table after the commit of line 134.
save_scheduler_config(table, guild_id, channel_id, schedule_hour, schedule_minute, enabled) ==
    LET found == rows_of(table, guild_id)                                  \* 111
    IN  IF found # {}
        THEN LET c0 == table[first_of(found)]
                 c1 == IF channel_id # None
                       THEN [c0 EXCEPT !.channel_id = channel_id] ELSE c0  \* 115-116
                 c2 == IF schedule_hour # None
                       THEN [c1 EXCEPT !.schedule_hour = schedule_hour] ELSE c1
                 c3 == IF schedule_minute # None
                       THEN [c2 EXCEPT !.schedule_minute = schedule_minute] ELSE c2
                 c4 == IF enabled # NoBool
                       THEN [c3 EXCEPT !.enabled = enabled[1]] ELSE c3     \* 121-122
             IN  [table EXCEPT ![first_of(found)] = c4]
        ELSE Append(table,                                                 \* 125-132
                SchedulerConfig(Len(table) + 1, guild_id, channel_id, schedule_hour,
                    schedule_minute, IF enabled # NoBool THEN enabled[1] ELSE FALSE))

\* A schedule command is the call of its interaction: n tells the
\* interactions apart.
\* /scheduleleaderboard (578-617): hour and minute are validated, then the
\* row of the guild is saved enabled.  The scheduled task is running since
\* on_ready (760-761), so line 613 finds it running.
ScheduleLeaderboard(guild_id, channel, hour, minute) ==
    /\ cmdsLeft > 0
    /\ cmdsLeft' = cmdsLeft - 1
    /\ call' = [op |-> "scheduleleaderboard", guild_id |-> guild_id, n |-> cmdsLeft]
    /\ IF hour \notin Hours \/ minute \notin Minutes                        \* 582-587
       THEN UNCHANGED LEX_SCHEDULER_CONFIG
       ELSE LEX_SCHEDULER_CONFIG' = save_scheduler_config(LEX_SCHEDULER_CONFIG,
                guild_id, channel, hour, minute, Some(TRUE))
    /\ UNCHANGED << LEX_PLAYERS, now, api_semaphore, runs, cmds, upstream >>
    /\ UNCHANGED << tick, outbox >>

\* /disableschedule (621-642): nothing without a row of the guild (626-629),
\* else enabled=False is the only argument given.
DisableSchedule(guild_id) ==
    /\ cmdsLeft > 0
    /\ cmdsLeft' = cmdsLeft - 1
    /\ call' = [op |-> "disableschedule", guild_id |-> guild_id, n |-> cmdsLeft]
    /\ IF rows_of(LEX_SCHEDULER_CONFIG, guild_id) = {}
       THEN UNCHANGED LEX_SCHEDULER_CONFIG
       ELSE LEX_SCHEDULER_CONFIG' = save_scheduler_config(LEX_SCHEDULER_CONFIG,
                guild_id, None, None, None, Some(FALSE))
    /\ UNCHANGED << LEX_PLAYERS, now, api_semaphore, runs, cmds, upstream >>
    /\ UNCHANGED << tick, outbox >>

\* ---- the leaderboard (lex.py:257-315) ---------------------------------------
\* One entry of leaderboard_list (263-268): an absent skill becomes 0.
Entry(player) ==
    [discordUsername |-> player.discordUsername, barUsername |-> player.barUsername,
     skill |-> IF player.skill # None THEN player.skill ELSE 0,
     skillUncertainty |-> player.skillUncertainty]

\* The entry goes in front of the entries of equal skill.
RECURSIVE insert_before_equal(_, _)
insert_before_equal(entry, sorted) ==
    IF sorted = << >> THEN << entry >>
    ELSE IF Head(sorted).skill > entry.skill
         THEN << Head(sorted) >> \o insert_before_equal(entry, Tail(sorted))
         ELSE << entry >> \o sorted

\* list.sort(key=skill, reverse=True) (270) is stable: an entry goes behind
\* every earlier entry of greater or equal skill.
RECURSIVE insert_desc(_, _)
insert_desc(entry, sorted) ==
    IF sorted = << >> THEN << entry >>
    ELSE IF Head(sorted).skill >= entry.skill
         THEN << Head(sorted) >> \o insert_desc(entry, Tail(sorted))
         ELSE << entry >> \o sorted

RECURSIVE sort_desc(_)
sort_desc(list) ==
    IF list = << >> THEN << >>
    ELSE insert_desc(list[Len(list)], sort_desc(SubSeq(list, 1, Len(list) - 1)))

\* get_leaderboard_data over the rows db.query(Player).all() returned.
get_leaderboard_data(players) ==
    sort_desc([i \in 1..Len(players) |-> Entry(players[i])])

\* create_leaderboard_embed (274-276) takes leaderboard_list, description and
\* highlight_username; a call with another keyword raises TypeError.
create_leaderboard_embed_params == {"leaderboard_list", "description", "highlight_username"}
create_leaderboard_embed_raises(arguments) ==
    ~(arguments \subseteq create_leaderboard_embed_params)
\* The call of lines 722-726.
scheduled_embed_arguments == {"leaderboard_list", "title", "description"}

\* ---- fetch_player_stats on its own ---------------------------------------------
MaxSkills == 2      \* entries in the skill list of a candidate
EntryPool ==
    {SkillEntry(1, 900, 9), SkillEntry(3, 1200, 12), SkillEntry(3, 700, 7), JunkEntry}
SkillLists == UNION {[1..n -> EntryPool] : n \in 0..MaxSkills}
Candidates == {Candidate(sl) : sl \in SkillLists} \cup {JunkCandidate}
\* Every response with no, one or two candidates (the second with at most
\* one entry), and the two without a list.
AnyResponses ==
    {RespError, RespNonList, RespEmpty}
        \cup {Body(<< c >>) : c \in Candidates}
        \cup {Body(<< c, d >>) : c \in Candidates,
                                 d \in {x \in Candidates : Len(x.skill) <= 1}}

Fetch(resp) ==
    /\ call' = [op |-> "fetch_player_stats", resp |-> resp,
                result |-> fetch_player_stats(resp)]
    /\ UNCHANGED << LEX_PLAYERS, now, api_semaphore, runs, cmds, cmdsLeft, upstream >>
    /\ UNCHANGED << LEX_SCHEDULER_CONFIG, tick, outbox >>

NextFetch == \E resp \in AnyResponses : Fetch(resp)

SpecFetch == InitWith({<< >>}, {}, 0, AnyUpstream) /\ [][NextFetch]_vars

\* ---- get_leaderboard_data on its own ------------------------------------------
\* The tables of alpha, beta and gamma (members 1, 2, 3) with any stored
\* skills, and the orders in which db.query(Player).all(), which has no
\* ORDER BY, may return the rows; get_all_players keeps that order in its
\* dict (51-64).
BoardSkills == {None, 0, 1200, 1500}
BoardNames == << "alpha", "beta", "gamma" >>
RECURSIVE BoardTable(_, _)
BoardTable(skills, k) ==
    IF k = 0 THEN << >>
    ELSE save_or_update_player(BoardTable(skills, k - 1), k, UserName(k),
            BoardNames[k], None, skills[k],
            IF skills[k] = None THEN None ELSE 10, 0)
BoardTables == {BoardTable(skills, 3) : skills \in [1..3 -> BoardSkills]}
ReadOrders(table) ==
    {order \in [1..Cardinality(DOMAIN table) -> DOMAIN table] :
        \A i, j \in DOMAIN order : order[i] = order[j] => i = j}

Leaderboard(order) ==
    /\ LET players == [i \in DOMAIN order |-> LEX_PLAYERS[order[i]]]
       IN  call' = [op |-> "get_leaderboard_data", players |-> players,
                    result |-> get_leaderboard_data(players)]
    /\ UNCHANGED << LEX_PLAYERS, now, api_semaphore, runs, cmds, cmdsLeft, upstream >>
    /\ UNCHANGED << LEX_SCHEDULER_CONFIG, tick, outbox >>

NextBoard == \E order \in ReadOrders(LEX_PLAYERS) : Leaderboard(order)

SpecBoard == InitWith(BoardTables, {}, 0, AnyUpstream) /\ [][NextBoard]_vars

\* ---- scheduled_leaderboard (lex.py:680-738) ---------------------------------
\* What the task did last for a guild: the minute the iteration read and
\* how far the processing of the config is: "no_channel" (700-702),
\* "refresh" (707), "empty" (717-719), "posted" (727), or, caught at line
\* 731, "render_error" for an exception of create_leaderboard_embed and
\* "send_error" for one of channel.send; board is the leaderboard that was
\* sent.
Event(at, kind, board) == [at |-> at, kind |-> kind, board |-> board]

\* The event of kind for config i of the running iteration.
event_of(kind, board) ==
    LET config == tick.configs[tick.i]
    IN  [outbox EXCEPT ![config.guild_id] = Event(tick.at, kind, board)]

\* The filter of lines 691-695 on one row.
is_due_whatever_enabled(config, current_hour, current_minute) ==
    /\ config.schedule_hour = current_hour
    /\ config.schedule_minute = current_minute

is_due_hour_only(config, current_hour, current_minute) ==
    /\ config.enabled
    /\ config.schedule_hour = current_hour

is_due(config, current_hour, current_minute) ==
    /\ config.enabled
    /\ config.schedule_hour = current_hour
    /\ config.schedule_minute = current_minute

\* .all() of that query: the rows that are due, in id order.
RECURSIVE due_configs(_, _, _)
due_configs(table, current_hour, current_minute) ==
    IF table = << >> THEN << >>
    ELSE LET rest == due_configs(SubSeq(table, 1, Len(table) - 1),
                                 current_hour, current_minute)
             last == table[Len(table)]
         IN  IF is_due(last, current_hour, current_minute)
             THEN Append(rest, last) ELSE rest

\* The wall clock reaches the next minute.
MinutePasses ==
    /\ now < MaxMinute
    /\ now' = now + 1
    /\ UNCHANGED << LEX_PLAYERS, api_semaphore, runs, cmds, cmdsLeft, upstream >>
    /\ UNCHANGED scheduler_vars

\* tasks.loop(minutes=1) (680): an iteration starts once the minute its
\* timer was set to has come and the body of the one before has returned,
\* however late; the timer is then set one minute further.  Lines 684-695:
\* the body reads the clock and the configs due at that hour and minute.
TickBegin ==
    /\ tick.pc = "sleep"
    /\ now >= tick.next_iteration
    /\ tick' = [pc |-> "tenant", next_iteration |-> tick.next_iteration + 1,
                at |-> now, hour |-> hour_of(now), minute |-> minute_of(now),
                configs |-> due_configs(LEX_SCHEDULER_CONFIG, hour_of(now),
                                        minute_of(now)),
                i |-> 1]
    /\ UNCHANGED << LEX_PLAYERS, now, api_semaphore, runs, cmds, cmdsLeft, upstream >>
    /\ UNCHANGED << LEX_SCHEDULER_CONFIG, outbox, call >>

\* The processing of config i ends with kind.
next_config(kind, board) ==
    /\ outbox' = event_of(kind, board)
    /\ tick' = [tick EXCEPT !.pc = "tenant", !.i = @ + 1]

\* An exception in the processing of a config leaves the loop and the body.
abort_on_error(kind, board) ==
    /\ outbox' = event_of(kind, board)
    /\ tick' = IF kind \in {"render_error", "send_error"}
               THEN IdleTick(tick.next_iteration)
               ELSE [tick EXCEPT !.pc = "tenant", !.i = @ + 1]

\* The processing of config i ends with kind; an exception is caught at
\* line 731 and the loop goes on with the next config.
end_config(kind, board) == next_config(kind, board)

\* Lines 697-707: the next config; without its channel it is skipped, else
\* refresh_all_player_stats is called.
TickTenant ==
    /\ tick.pc = "tenant"
    /\ tick.i <= Len(tick.configs)
    /\ IF tick.configs[tick.i].channel_id \notin KnownChannels
       THEN end_config("no_channel", << >>)
       ELSE /\ tick' = [tick EXCEPT !.pc = "refresh"]
            /\ outbox' = event_of("refresh", << >>)
    /\ UNCHANGED << LEX_PLAYERS, now, api_semaphore, runs, cmds, cmdsLeft, upstream >>
    /\ UNCHANGED << LEX_SCHEDULER_CONFIG, call >>

\* Line 707: the refresh the body awaits starts.
TickRefresh ==
    /\ tick.pc = "refresh"
    /\ RefreshStart(1)

\* Lines 707-729, once the refresh has returned: the leaderboard is read
\* from the table; empty, the notice is sent (718); else the embed is made
\* with the arguments of lines 722-726 and sent.  sent: the send succeeds.
TickLeaderboard(sent) ==
    /\ tick.pc = "refresh"
    /\ runs[1].pc = "done"
    /\ runs' = [runs EXCEPT ![1] = IdleRun]
    /\ LET leaderboard_list == get_leaderboard_data(all_players(LEX_PLAYERS))
       IN  IF leaderboard_list = << >>
           THEN end_config(IF sent THEN "empty" ELSE "send_error", << >>)
           ELSE IF create_leaderboard_embed_raises(scheduled_embed_arguments)
           THEN end_config("render_error", << >>)
           ELSE end_config(IF sent THEN "posted" ELSE "send_error",
                           IF sent THEN leaderboard_list ELSE << >>)
    /\ UNCHANGED << LEX_PLAYERS, now, api_semaphore, cmds, cmdsLeft, upstream >>
    /\ UNCHANGED << LEX_SCHEDULER_CONFIG, call >>

\* Lines 697 and 734-738: no config is left; the body returns and the task
\* sleeps until its timer.
TickEnd ==
    /\ tick.pc = "tenant"
    /\ tick.i > Len(tick.configs)
    /\ tick' = IdleTick(tick.next_iteration)
    /\ UNCHANGED << LEX_PLAYERS, now, api_semaphore, runs, cmds, cmdsLeft, upstream >>
    /\ UNCHANGED << LEX_SCHEDULER_CONFIG, outbox, call >>

NextScheduler ==
    \/ MinutePasses
    \/ \E g \in Guilds, ch \in Channels, h \in 0..Cardinality(Hours), m \in Minutes :
            ScheduleLeaderboard(g, ch, h, m)
    \/ \E g \in Guilds : DisableSchedule(g)
    \/ TickBegin
    \/ TickTenant
    \/ TickRefresh
    \/ \E i \in DOMAIN runs[1].tasks : TaskAcquire(1, i)
    \/ \E i \in DOMAIN runs[1].tasks :
            \E fr \in upstream[runs[1].players[i].barUsername] : TaskComplete(1, i, fr)
    \/ RefreshApply(1)
    \/ RefreshApplyFails(1)
    \/ \E sent \in BOOLEAN : TickLeaderboard(sent)
    \/ TickEnd

\* The scheduled task and the schedule commands, over the tables of the
\* scenarios.
InitScheduler == InitWith({<< >>, TableUpTo(2)}, Runs, MaxScheduleCmds, ScenarioUpstream)
SpecScheduler == InitScheduler /\ [][NextScheduler]_vars

\* ---- the commands and what they answer --------------------------------------
\* The last interaction.followup.send of a command whose lookup returned fr:
\* register 375, 405-406, 409; registeruser 419, 423, 452; updateuser 533,
\* 541, 545.  register and registeruser await the lookup outside any try, so
\* an exception of it leaves the handler and nothing is sent.
followup(kind, fr) ==
    CASE kind = "register" ->
            IF fr.raised THEN "nothing"
            ELSE IF ~fr.success THEN "try_again_later"                   \* 374-376
            ELSE IF ~fr.player THEN "could_not_find"                     \* 404-407
            ELSE "registered"                                            \* 409
      [] kind = "registeruser" ->
            IF fr.raised THEN "nothing"
            ELSE IF ~fr.success THEN "try_again_later"                   \* 418-420
            ELSE IF ~fr.player THEN "could_not_find"                     \* 422-424
            ELSE "registered"                                            \* 452
      [] kind = "updateuser" ->
            IF fr.raised THEN "an_error_occurred"                        \* 543-545
            ELSE IF fr.success /\ fr.player THEN "updated"               \* 508-541
            ELSE "try_again_later"                                       \* 531-534

\* The lookup of command c returns fr and the command runs to its end: the
\* step of CmdComplete, with the command, the lookup and the answer kept.
CmdReply(c, fr) ==
    /\ c \in cmds
    /\ fr \in upstream[c.username]
    /\ LEX_PLAYERS' =
        CASE c.kind = "register" -> register(LEX_PLAYERS, c, fr, now)
          [] c.kind = "registeruser" -> registeruser(LEX_PLAYERS, c, fr, now)
          [] c.kind = "updateuser" -> updateuser(LEX_PLAYERS, c, fr, now)
    /\ cmds' = cmds \ {c}
    /\ call' = [op |-> c.kind, c |-> c, fr |-> fr, sent |-> followup(c.kind, fr)]
    /\ UNCHANGED << now, api_semaphore, runs, cmdsLeft, upstream >>
    /\ UNCHANGED << LEX_SCHEDULER_CONFIG, tick, outbox >>

NextReply ==
    \/ Tick
    \/ \E m \in Members, u \in BarNames : RegisterBegin(m, u)
    \/ \E by \in Members : \E m \in Members \ {by}, u \in BarNames :
            RegisterUserBegin(by, m, u)
    \/ \E u \in BarNames : UpdateUserBegin(u)
    \/ \E c \in cmds : \E fr \in upstream[c.username] : CmdReply(c, fr)

\* The commands on their own, each with its answer.
SpecReply == InitWith(InitialTables, {}, MaxCmds, AnyUpstream) /\ [][NextReply]_vars

\* ---- vocabulary of the properties -------------------------------------------
\* The outcome of a lookup: a rating obtained (Success), the player found
\* without a large-team rating (NoData), no such player (NotFound), an
\* upstream error returned as a value (Failure), or an exception.
IsSuccess(fr) == ~fr.raised /\ fr.success /\ fr.player /\ fr.skill # None
IsNoData(fr) == ~fr.raised /\ fr.success /\ fr.player /\ fr.skill = None
IsNotFound(fr) == ~fr.raised /\ fr.success /\ ~fr.player
IsFailure(fr) == ~fr.raised /\ ~fr.success

\* Run r returns in this step, from its batch apply, with its summary.
Returns(r) == runs[r].pc # "done" /\ runs'[r].pc = "done"
Applies(r) == runs[r].pc = "gather" /\ runs'[r].pc = "done"
TasksOf(r) == 1..Len(runs[r].tasks)
Count(r, Is(_)) == Cardinality({i \in TasksOf(r) : Is(runs[r].tasks[i].fetched)})

\* C1: at every instant at most MAX_CONCURRENT_FETCHES upstream lookups are
\* in flight, counting the refresh tasks and the lookups of register,
\* registeruser and updateuser.
C1_GateBoundsEveryFetch == InFlight <= MAX_CONCURRENT_FETCHES

\* C2: when a refresh returns, every player of it whose lookup found the
\* player without a large-team rating (NoData) has the rating triple the
\* row had before the refresh wrote.
C2_NoDataKeepsRating ==
    [][\A r \in DOMAIN runs : Applies(r) =>
         \A i \in TasksOf(r) :
            LET id == runs[r].players[i].discordId
            IN  (IsNoData(runs[r].tasks[i].fetched) /\ id \in DOMAIN LEX_PLAYERS)
                    => Triple(LEX_PLAYERS'[id]) = Triple(LEX_PLAYERS[id])]_vars

\* C3: the summary a refresh returns has updated = the number of Success
\* outcomes and failed = the number of Failure outcomes; NoData and NotFound
\* count in neither.  For alpha, beta, gamma answered 1500, no rating, 1200
\* it is {total: 3, updated: 2, failed: 0}.
C3_SummaryCountsOutcomes ==
    [][\A r \in DOMAIN runs : (Applies(r) /\ ~runs'[r].summary.error) =>
         /\ runs'[r].summary.updated = Count(r, IsSuccess)
         /\ runs'[r].summary.failed = Count(r, IsFailure)
         /\ [i \in TasksOf(r) |-> runs[r].players[i].barUsername]
                    = << "alpha", "beta", "gamma" >>
                => runs'[r].summary = Summary(3, 2, 0, FALSE)]_vars

\* C4: on every path a refresh returns total = the number of players it
\* read and updated + failed <= total; for no players it returns zeros and
\* no error.
C4_TotalIsPlayerCount ==
    [][\A r \in DOMAIN runs : Returns(r) =>
         LET n == IF runs[r].pc = "idle" THEN Cardinality(DOMAIN LEX_PLAYERS)
                  ELSE Len(runs[r].players)
             s == runs'[r].summary
         IN  /\ s.total = n
             /\ s.updated + s.failed <= s.total
             /\ n = 0 => s = Summary(0, 0, 0, FALSE)]_vars

\* C5: a refresh changes the rating triple of a row in one step: the commit
\* of its batch apply moves every row it changes from the triple the row
\* had to the whole triple (skill, skillUncertainty, time of the apply) of
\* that player's result, so no state of the table in between exists for
\* another session to read.
C5_TripleChangesTogether ==
    [][\A r \in DOMAIN runs : Applies(r) =>
         \A id \in DOMAIN LEX_PLAYERS :
            \/ Triple(LEX_PLAYERS'[id]) = Triple(LEX_PLAYERS[id])
            \/ \E i \in TasksOf(r) :
                LET res == runs[r].tasks[i].res
                IN  /\ res.success
                    /\ res.discordId = id
                    /\ Triple(LEX_PLAYERS'[id]) =
                            << res.skill, res.skillUncertainty, now >>]_vars

\* C5 happens: a refresh has committed new ratings for two players while a
\* command was waiting for its lookup.
C5_Witness ==
    /\ \E r \in DOMAIN runs : runs[r].pc = "done" /\ runs[r].summary.updated = 2
    /\ \E id \in DOMAIN LEX_PLAYERS :
        LEX_PLAYERS[id].skill = 1500 /\ LEX_PLAYERS[id].lastStatsUpdate = 1
    /\ cmds # {}

\* C6: every row has a skill exactly when it has a lastStatsUpdate.
C6_RatingIffTimestamp ==
    \A id \in DOMAIN LEX_PLAYERS :
        (LEX_PLAYERS[id].skill # None) <=> (LEX_PLAYERS[id].lastStatsUpdate # None)

\* C7: a refresh starts one task per player it read, gather returns only
\* when every task has finished, whatever the others returned or raised, and
\* a refresh that returns its counts has written the rating of every player
\* whose lookup found one.
C7_FailureIsolation ==
    [][\A r \in DOMAIN runs :
        /\ (runs[r].pc = "idle" /\ runs'[r].pc = "gather")
             => Len(runs'[r].tasks) = Cardinality(DOMAIN LEX_PLAYERS)
        /\ (runs[r].pc = "gather" /\ runs'[r].pc # "gather")
             => \A i \in TasksOf(r) : runs[r].tasks[i].st = "done"
        /\ (Applies(r) /\ ~runs'[r].summary.error)
             => \A i \in TasksOf(r) :
                    LET fr == runs[r].tasks[i].fetched
                        id == runs[r].players[i].discordId
                    IN  IsSuccess(fr) =>
                            Triple(LEX_PLAYERS'[id]) =
                                << fr.skill, fr.skillUncertainty, now >>]_vars

\* C7 happens: a refresh returned with one player failed and another
\* player's new rating written.
C7_Witness ==
    \E r \in DOMAIN runs :
        /\ runs[r].pc = "done"
        /\ runs[r].summary.failed = 1
        /\ runs[r].summary.updated = 1
        /\ \E id \in DOMAIN LEX_PLAYERS : LEX_PLAYERS[id].skill = 1200

\* C8: when a refresh returns, every player of it whose lookup failed
\* (timeout, transport error, non-2xx) has the row it had and is counted in
\* failed.
C8_FailureCountedRowKept ==
    [][\A r \in DOMAIN runs : Applies(r) =>
         /\ runs'[r].summary.failed >= Count(r, IsFailure)
         /\ \A i \in TasksOf(r) :
                LET id == runs[r].players[i].discordId
                IN  IsFailure(runs[r].tasks[i].fetched)
                        => LEX_PLAYERS'[id] = LEX_PLAYERS[id]]_vars

\* C9: when the store raises during the batch apply, the refresh still
\* writes every other Success result (at most the failing record is left
\* out) and returns a summary with the true total.
C9_StoreErrorIsPartial ==
    [][\A r \in DOMAIN runs : (Applies(r) /\ runs'[r].summary.error) =>
         /\ runs'[r].summary.total = Len(runs[r].players)
         /\ Cardinality({i \in TasksOf(r) :
                LET res == runs[r].tasks[i].res
                IN  /\ res.success
                    /\ Triple(LEX_PLAYERS'[res.discordId]) #
                            << res.skill, res.skillUncertainty, now >>}) <= 1]_vars

\* C10: a row never changes its discordId nor its registeredAt.
C10_IdAndRegisteredAtFixed ==
    [][\A id \in DOMAIN LEX_PLAYERS :
         /\ id \in DOMAIN LEX_PLAYERS'
         /\ LEX_PLAYERS'[id].discordId = LEX_PLAYERS[id].discordId
         /\ LEX_PLAYERS'[id].registeredAt = LEX_PLAYERS[id].registeredAt]_vars

\* C11: save_or_update_player keeps one row per discordId; it creates the
\* row when there is none, and on an existing row it changes only what the
\* call supplies: the names, registeredBy when one is given, and the rating
\* triple (as a whole) when a skill is given; registeredAt, and a rating or
\* a registeredBy the call leaves absent, stay as stored.
C11_UpsertMergesSupplied ==
    [][(call'.op = "save_or_update_player" /\ now' = now) =>
        LET a == call'
            id == a.discord_id
            q == LEX_PLAYERS'[id]
        IN  /\ DOMAIN LEX_PLAYERS' = DOMAIN LEX_PLAYERS \cup {id}
            /\ \A m \in DOMAIN LEX_PLAYERS' : LEX_PLAYERS'[m].discordId = m
            /\ \A m \in DOMAIN LEX_PLAYERS \ {id} : LEX_PLAYERS'[m] = LEX_PLAYERS[m]
            /\ q.discordUsername = a.discord_username
            /\ q.barUsername = a.bar_username
            /\ id \notin DOMAIN LEX_PLAYERS =>
                    /\ q.registeredAt = now
                    /\ q.registeredBy = a.registered_by
                    /\ Triple(q) = << a.skill, a.skill_uncertainty,
                                      IF a.skill # None THEN now ELSE None >>
            /\ id \in DOMAIN LEX_PLAYERS =>
                    LET p == LEX_PLAYERS[id]
                    IN  /\ q.registeredAt = p.registeredAt
                        /\ q.registeredBy = IF a.registered_by # None
                                            THEN a.registered_by ELSE p.registeredBy
                        /\ Triple(q) = IF a.skill # None
                                       THEN << a.skill, a.skill_uncertainty, now >>
                                       ELSE Triple(p)]_vars

\* ---- the scheduler ------------------------------------------------------------
\* The row of a guild; an iteration begins, runs on, ends; a schedule
\* command of kind op has just been handled.
config_of(table, guild_id) == table[first_of(rows_of(table, guild_id))]
TickBegins == tick.pc = "sleep" /\ tick'.pc # "sleep"
TickRuns == tick.pc # "sleep" /\ tick'.pc # "sleep"
TickEnds == tick.pc # "sleep" /\ tick'.pc = "sleep"
Handled(op) == call' # call /\ call'.op = op
GuildsOf(configs) == {configs[k].guild_id : k \in DOMAIN configs}
Processed(g) == outbox'[g] # outbox[g]
\* The task has called the refresh for guild g in the minute of outbox[g].
Refreshed(g) == outbox[g].kind \notin {"none", "no_channel"}

\* C12: no guild ever has two rows, and /disableschedule on a guild with a
\* row changes nothing but the enabled flag of that row: channel_id,
\* schedule_hour and schedule_minute stay as they were.
C12_DisableKeepsChannelAndTime ==
    [][/\ \A i, j \in DOMAIN LEX_SCHEDULER_CONFIG' :
            LEX_SCHEDULER_CONFIG'[i].guild_id = LEX_SCHEDULER_CONFIG'[j].guild_id
                => i = j
       /\ Handled("disableschedule") =>
            LET found == rows_of(LEX_SCHEDULER_CONFIG, call'.guild_id)
            IN  IF found = {} THEN LEX_SCHEDULER_CONFIG' = LEX_SCHEDULER_CONFIG
                ELSE LEX_SCHEDULER_CONFIG' =
                        [LEX_SCHEDULER_CONFIG EXCEPT ![first_of(found)].enabled = FALSE]
      ]_vars

\* C12 happens: the schedule of a guild set to channel 10 at 01:01 has been
\* disabled.
C12_Witness ==
    /\ call.op = "disableschedule"
    /\ rows_of(LEX_SCHEDULER_CONFIG, call.guild_id) # {}
    /\ LET config == config_of(LEX_SCHEDULER_CONFIG, call.guild_id)
       IN  /\ ~config.enabled
           /\ config.channel_id = 10
           /\ config.schedule_hour = 1
           /\ config.schedule_minute = 1

\* C13: an iteration selects exactly the rows that are enabled and whose
\* schedule_hour and schedule_minute are the hour and minute it read, each
\* once; it processes these configs one after the other, no other guild, and
\* ends only when all of them have been processed.
C13_DueConfigsExactly ==
    [][/\ TickBegins =>
            /\ GuildsOf(tick'.configs) =
                 {LEX_SCHEDULER_CONFIG[i].guild_id : i \in
                    {j \in DOMAIN LEX_SCHEDULER_CONFIG :
                        /\ LEX_SCHEDULER_CONFIG[j].enabled
                        /\ LEX_SCHEDULER_CONFIG[j].schedule_hour = hour_of(now)
                        /\ LEX_SCHEDULER_CONFIG[j].schedule_minute = minute_of(now)}}
            /\ \A k \in DOMAIN tick'.configs :
                    tick'.configs[k] = config_of(LEX_SCHEDULER_CONFIG,
                                                 tick'.configs[k].guild_id)
            /\ Len(tick'.configs) = Cardinality(GuildsOf(tick'.configs))
            /\ tick'.i = 1
       /\ TickRuns =>
            /\ tick'.configs = tick.configs
            /\ tick'.i \in {tick.i, tick.i + 1}
       /\ TickEnds => tick.i = Len(tick.configs) + 1
       /\ \A g \in Guilds : Processed(g) =>
            /\ tick.pc # "sleep"
            /\ tick.i \in DOMAIN tick.configs
            /\ tick.configs[tick.i].guild_id = g
      ]_vars

\* C13 happens: of two enabled schedules of the same hour, an iteration has
\* selected the one of the minute it read.
C13_Witness ==
    /\ tick.pc = "tenant"
    /\ Len(tick.configs) = 1
    /\ Len(LEX_SCHEDULER_CONFIG) = 2
    /\ \A i \in DOMAIN LEX_SCHEDULER_CONFIG :
        /\ LEX_SCHEDULER_CONFIG[i].enabled
        /\ LEX_SCHEDULER_CONFIG[i].schedule_hour = tick.hour
    /\ \E i \in DOMAIN LEX_SCHEDULER_CONFIG :
        LEX_SCHEDULER_CONFIG[i].schedule_minute # tick.minute

\* C14: /disableschedule on a guild with a row leaves the row disabled; a
\* disabled row becomes enabled only by a /scheduleleaderboard of its guild;
\* and no iteration selects a guild whose row is disabled when it begins.
C14_DisabledNeverDue ==
    [][/\ (Handled("disableschedule")
            /\ rows_of(LEX_SCHEDULER_CONFIG, call'.guild_id) # {})
            => ~config_of(LEX_SCHEDULER_CONFIG', call'.guild_id).enabled
       /\ \A i \in DOMAIN LEX_SCHEDULER_CONFIG :
            (~LEX_SCHEDULER_CONFIG[i].enabled /\ LEX_SCHEDULER_CONFIG'[i].enabled)
                => /\ Handled("scheduleleaderboard")
                   /\ call'.guild_id = LEX_SCHEDULER_CONFIG[i].guild_id
       /\ TickBegins =>
            \A g \in GuildsOf(tick'.configs) :
                config_of(LEX_SCHEDULER_CONFIG, g).enabled
      ]_vars

\* C14 happens: a guild whose refresh the task had called was disabled, and
\* an iteration that read the hour and minute of its row, the minute of that
\* refresh, selected nothing.
C14_Witness ==
    /\ tick.pc = "tenant"
    /\ tick.configs = << >>
    /\ call.op = "disableschedule"
    /\ \E i \in DOMAIN LEX_SCHEDULER_CONFIG :
        LET config == LEX_SCHEDULER_CONFIG[i]
        IN  /\ config.guild_id = call.guild_id
            /\ ~config.enabled
            /\ config.schedule_hour = tick.hour
            /\ config.schedule_minute = tick.minute
            /\ Refreshed(config.guild_id)
            /\ outbox[config.guild_id].at = tick.at

\* C15: the task calls the refresh for a guild at most once for one minute
\* of the wall clock, and only in an iteration that read the hour and
\* minute of the guild's config: a minute no iteration read is not made up
\* for later.
C15_OncePerConfiguredMinute ==
    [][\A g \in Guilds : (Processed(g) /\ outbox'[g].kind = "refresh") =>
            /\ ~(Refreshed(g) /\ outbox[g].at = tick.at)
            /\ tick.configs[tick.i].schedule_hour = hour_of(tick.at)
            /\ tick.configs[tick.i].schedule_minute = minute_of(tick.at)
            /\ tick.at <= now
      ]_vars

\* C16: when the processing of a config ends without its channel or with
\* an exception of the render or of a send, or when its refresh returns an
\* error, the iteration goes on: the next config is processed, and the
\* iteration ends only behind the last config.
C16_TenantErrorIsolated ==
    [][/\ \A g \in Guilds :
            (Processed(g)
                /\ outbox'[g].kind \in {"no_channel", "render_error", "send_error"})
            => /\ tick'.pc = "tenant"
               /\ tick'.i = tick.i + 1
               /\ tick'.configs = tick.configs
       /\ (tick.pc = "refresh" /\ Applies(1) /\ runs'[1].summary.error)
            => tick' = tick
       /\ TickEnds => tick.i > Len(tick.configs)
      ]_vars

\* C16 happens: in an iteration with two due guilds the processing of the
\* first ended in an error and the second has been processed too.
C16_Witness ==
    /\ tick.pc = "tenant"
    /\ Len(tick.configs) = 2
    /\ tick.i = 3
    /\ LET first == outbox[tick.configs[1].guild_id]
           second == outbox[tick.configs[2].guild_id]
       IN  /\ first.at = tick.at
           /\ first.kind \in {"render_error", "send_error"}
           /\ second.at = tick.at
           /\ second.kind \in {"empty", "render_error"}

\* C17: for a due guild whose channel exists, the iteration calls the
\* refresh over all the players of the table and then, with a player in the
\* table and unless the send fails, posts the sorted leaderboard to the
\* channel.
C17_DueGuildGetsLeaderboard ==
    [][/\ (tick.pc = "refresh" /\ runs[1].pc = "idle" /\ runs'[1].pc = "gather")
            => Len(runs'[1].players) = Cardinality(DOMAIN LEX_PLAYERS)
       /\ \A g \in Guilds :
            (Processed(g) /\ tick.pc = "refresh" /\ LEX_PLAYERS # << >>)
            => /\ outbox'[g].kind \in {"posted", "send_error"}
               /\ outbox'[g].kind = "posted" =>
                    outbox'[g].board = get_leaderboard_data(all_players(LEX_PLAYERS))
      ]_vars

\* C18: get_leaderboard_data returns an entry for every player read, in
\* descending order of skill with an absent skill counted as 0, and entries
\* of equal skill in the order in which the rows were read; for alpha 1500,
\* beta unranked, gamma 1200 it returns alpha 1500, gamma 1200, beta 0.
C18_LeaderboardStableDescending ==
    call.op = "get_leaderboard_data" =>
        LET players == call.players
            result == call.result
            n == Len(players)
            key(p) == IF p.skill # None THEN p.skill ELSE 0
        IN  /\ Len(result) = n
            /\ \E place \in [1..n -> 1..n] :
                /\ \A i, j \in 1..n : place[i] = place[j] => i = j
                /\ \A i \in 1..n :
                    /\ result[place[i]].barUsername = players[i].barUsername
                    /\ result[place[i]].discordUsername = players[i].discordUsername
                    /\ result[place[i]].skill = key(players[i])
                    /\ result[place[i]].skillUncertainty = players[i].skillUncertainty
                /\ \A i, j \in 1..n :
                    /\ key(players[i]) > key(players[j]) => place[i] < place[j]
                    /\ (key(players[i]) = key(players[j]) /\ i < j)
                            => place[i] < place[j]
            /\ (\A i \in 1..n :
                    players[i].skill = CASE players[i].barUsername = "alpha" -> 1500
                                         [] players[i].barUsername = "beta" -> None
                                         [] OTHER -> 1200)
                => [i \in 1..n |-> << result[i].barUsername, result[i].skill >>]
                        = << << "alpha", 1500 >>, << "gamma", 1200 >>, << "beta", 0 >> >>

\* C18 happens: gamma and alpha, both unranked, were read in that order
\* before beta with 1500, and the leaderboard is beta, gamma, alpha.
C18_Witness ==
    /\ call.op = "get_leaderboard_data"
    /\ [i \in 1..3 |-> << call.players[i].barUsername, call.players[i].skill >>]
            = << << "gamma", None >>, << "alpha", None >>, << "beta", 1500 >> >>
    /\ [i \in 1..3 |-> call.result[i].barUsername] = << "beta", "gamma", "alpha" >>

\* ---- the lookup ---------------------------------------------------------------
\* The first candidate of a response, and a payload that is not what the
\* API documents: the body is no list, its first element is no object, or
\* an entry of the first candidate's skill list is no object.
Malformed(resp) ==
    /\ resp.httpok
    /\ \/ ~resp.islist
       \/ /\ resp.items # << >>
          /\ \/ ~resp.items[1].isobj
             \/ \E k \in DOMAIN resp.items[1].skill : ~resp.items[1].skill[k].isobj
WellFormed(resp) ==
    /\ resp.httpok
    /\ resp.islist
    /\ \A c \in DOMAIN resp.items :
        /\ resp.items[c].isobj
        /\ \A k \in DOMAIN resp.items[c].skill : resp.items[c].skill[k].isobj

\* C19: fetch_player_stats raises nothing, and a failed request (transport,
\* status, timeout) or a malformed payload comes back as success = False.
C19_FetchNeverRaises ==
    call.op = "fetch_player_stats" =>
        /\ ~call.result.raised
        /\ (~call.resp.httpok \/ Malformed(call.resp)) => IsFailure(call.result)

\* C20: for a well-formed response with a candidate the result is a found
\* player with the skill and skillUncertainty of the first entry with
\* gamemode 3 of the first candidate, absent when it has no such entry; for
\* an empty list it is success with no player.
C20_FirstCandidateFirstLargeTeam ==
    (call.op = "fetch_player_stats" /\ WellFormed(call.resp)) =>
        LET items == call.resp.items
            result == call.result
        IN  /\ ~result.raised
            /\ result.success
            /\ result.player = (items # << >>)
            /\ items # << >> =>
                LET sl == items[1].skill
                    matching == {k \in DOMAIN sl : sl[k].gamemode = 3}
                IN  IF matching = {}
                    THEN result.skill = None /\ result.skillUncertainty = None
                    ELSE \E k \in matching :
                            /\ \A j \in matching : k <= j
                            /\ result.skill = sl[k].skill
                            /\ result.skillUncertainty = sl[k].skillUncertainty

\* C20 happens: of two candidates the first has two entries with gamemode 3,
\* 1200 before 700, and the lookup returned 1200.
C20_Witness ==
    /\ call.op = "fetch_player_stats"
    /\ Len(call.resp.items) = 2
    /\ call.resp.items[1].skill = << SkillEntry(3, 1200, 12), SkillEntry(3, 700, 7) >>
    /\ call.resp.items[2].skill = << SkillEntry(3, 700, 7) >>
    /\ call.result.skill = 1200
    /\ call.result.skillUncertainty = 12

\* The command of this step that ran to its end with its answer.
Replies(kind) == call' # call /\ call'.op = kind

\* C21: when the lookup of updateuser fails (an upstream error, or a payload
\* that cannot be read), the command answers "try again later" and leaves
\* every field of the player's row as the table has it.
C21_UpdateFailureKeepsRecord ==
    [][Replies("updateuser") =>
        LET fr == call'.fr
        IN  (fr.raised \/ ~fr.success) =>
                /\ call'.sent = "try_again_later"
                /\ LEX_PLAYERS' = LEX_PLAYERS]_vars

\* Task i of run r is waiting for a permit, holds one, or has finished.
TaskIs(r, i, st) == i \in DOMAIN runs[r].tasks /\ runs[r].tasks[i].st = st

\* C22: with every upstream call terminating, every task waiting on the
\* semaphore gets its permit, every permit taken is given back when the
\* task ends (the free permits and the lookups in flight always add up to
\* the capacity), and every refresh that has started returns its summary,
\* also when two refreshes run at once.
C22_GateLiveness ==
    /\ [](api_semaphore + InFlightTasks = MAX_CONCURRENT_FETCHES)
    /\ \A r \in ConcurrentRuns : \A i \in TaskSlots :
            TaskIs(r, i, "waiting") ~> TaskIs(r, i, "fetching")
    /\ \A r \in ConcurrentRuns : \A i \in TaskSlots :
            TaskIs(r, i, "fetching") ~> TaskIs(r, i, "done")
    /\ \A r \in ConcurrentRuns :
            (runs[r].pc = "gather") ~>
                (runs[r].pc = "done" /\ runs[r].summary # NoSummary)

\* C22 happens: two refreshes over two players each ran at once, a task of
\* each waited while the other run held the permit, and both have returned
\* with all permits free.
C22_Witness ==
    /\ \A r \in ConcurrentRuns :
            /\ runs[r].pc = "done"
            /\ runs[r].summary.total = 2
    /\ api_semaphore = MAX_CONCURRENT_FETCHES

\* The lookup found the player, so the task hands a result to the apply.
Found(fr) == ~fr.raised /\ fr.success /\ fr.player

\* C23: a refresh writes to the store only in its batch apply, when every
\* one of its tasks has finished; and the table and the summary it leaves
\* are determined by what each player's lookup returned, whatever the
\* order in which the lookups ended: every row of a player whose lookup
\* found them gets that lookup's rating, every other row is kept, and the
\* counts are the numbers of such players.
C23_ApplyAfterAllOrderFree ==
    [][/\ LEX_PLAYERS' # LEX_PLAYERS => \E r \in DOMAIN runs : Applies(r)
       /\ \A r \in DOMAIN runs : Applies(r) =>
            /\ \A i \in TasksOf(r) : runs[r].tasks[i].st = "done"
            /\ runs'[r].summary.error => LEX_PLAYERS' = LEX_PLAYERS
            /\ ~runs'[r].summary.error =>
                LET fetched(i) == runs[r].tasks[i].fetched
                    id_of(i) == runs[r].players[i].discordId
                    found == {i \in TasksOf(r) : Found(fetched(i))}
                IN  /\ DOMAIN LEX_PLAYERS' = DOMAIN LEX_PLAYERS
                    /\ \A id \in DOMAIN LEX_PLAYERS :
                        LET of_id == {i \in found : id_of(i) = id}
                        IN  IF of_id = {} THEN LEX_PLAYERS'[id] = LEX_PLAYERS[id]
                            ELSE \A i \in of_id :
                                    LEX_PLAYERS'[id] =
                                        [LEX_PLAYERS[id] EXCEPT
                                            !.skill = fetched(i).skill,
                                            !.skillUncertainty = fetched(i).skillUncertainty,
                                            !.lastStatsUpdate = now]
                    /\ runs'[r].summary =
                            Summary(Len(runs[r].players),
                                    Cardinality({i \in found : id_of(i) \in DOMAIN LEX_PLAYERS}),
                                    Cardinality(TasksOf(r) \ found), FALSE)]_vars

\* C23 happens: the lookup of the second player of a refresh ended before
\* that of the first, one found 1500 and the other failed, and the refresh
\* has returned one updated and one failed.
C23_Witness ==
    /\ call.op = "gather"
    /\ \E r \in DOMAIN runs :
        /\ runs[r].pc = "done"
        /\ runs[r].summary = Summary(2, 1, 1, FALSE)
        /\ \E j, k \in DOMAIN call.order :
                j < k /\ call.order[j] = << r, 2 >> /\ call.order[k] = << r, 1 >>
        /\ \E id \in DOMAIN LEX_PLAYERS : LEX_PLAYERS[id].skill = 1500

\* C24: whenever a refresh writes a rating into a row, the lookup that
\* returned the rating was made for the barUsername the row holds at the
\* time of the write, also when a register or registeruser for the same
\* member changed the name while the lookups of the refresh were in flight.
C24_RatingOfCurrentUsername ==
    [][\A r \in DOMAIN runs : (Applies(r) /\ ~runs'[r].summary.error) =>
         \A i \in TasksOf(r) :
            LET res == runs[r].tasks[i].res
            IN  (res.success /\ res.discordId \in DOMAIN LEX_PLAYERS) =>
                    LEX_PLAYERS[res.discordId].barUsername =
                        runs[r].players[i].barUsername]_vars

\* ---- a command racing a refresh for the same member --------------------------
\* The lookup of a task of a refresh for member id is in flight.
Sent(id) ==
    \E r \in DOMAIN runs : \E i \in DOMAIN runs[r].tasks :
        /\ runs[r].pc = "gather"
        /\ runs[r].players[i].discordId = id
        /\ runs[r].tasks[i].st = "fetching"

\* Member 1, the one registered player, runs /register, or someone runs
\* /updateuser for them, while the lookup of a refresh for member 1 is in
\* flight: the lookup of the command is the later one.  It finds a rating.
RaceRegisterBegin(username) == Sent(1) /\ RegisterBegin(1, username)
RaceUpdateUserBegin(username) == Sent(1) /\ UpdateUserBegin(username)
RaceCmdComplete(c, fr) == IsSuccess(fr) /\ CmdComplete(c, fr)

RaceUpstream == [u \in AllNames |-> Fetches({Resp1500, Resp1200, RespError})]
NextRace ==
    \/ Tick
    \/ \E r \in DOMAIN runs : RefreshStart(r)
    \/ \E r \in DOMAIN runs : \E i \in DOMAIN runs[r].tasks : TaskAcquire(r, i)
    \/ \E r \in DOMAIN runs : \E i \in DOMAIN runs[r].tasks :
            \E fr \in upstream[runs[r].players[i].barUsername] : TaskComplete(r, i, fr)
    \/ \E r \in DOMAIN runs : RefreshApply(r)
    \/ \E r \in DOMAIN runs : RefreshApplyFails(r)
    \/ \E u \in BarNames : RaceRegisterBegin(u)
    \/ \E u \in BarNames : RaceUpdateUserBegin(u)
    \/ \E c \in cmds : \E fr \in upstream[c.username] : RaceCmdComplete(c, fr)
SpecRace == InitWith({TableUpTo(1)}, Runs, MaxCmds, RaceUpstream) /\ [][NextRace]_vars

\* A command has run to its end: in SpecRace it has written the rating of
\* a lookup sent after the refresh's lookup for the same member.
LaterRatingWritten == Cardinality(cmds) < MaxCmds - cmdsLeft

\* C25: a rating obtained by an earlier lookup never overwrites one obtained
\* by a later lookup for the same player: a refresh whose lookup for a
\* member was sent before the lookup of a register or updateuser for that
\* member does not write its rating once the command has written its own.
C25_LaterFetchWins ==
    [][\A r \in DOMAIN runs : (Applies(r) /\ ~runs'[r].summary.error) =>
         \A i \in TasksOf(r) :
            IsSuccess(runs[r].tasks[i].fetched) => ~LaterRatingWritten]_vars

\* The fields of a row that are not its rating triple.
Identity(p) ==
    << p.discordId, p.discordUsername, p.barUsername, p.registeredAt, p.registeredBy >>

\* C26: a refresh never creates or deletes a row and never changes a row's
\* discordId, discordUsername, barUsername, registeredAt or registeredBy;
\* it changes at most skill, skillUncertainty and lastStatsUpdate, and only
\* of the players it read when it started.
C26_RefreshFrame ==
    [][\A r \in DOMAIN runs : Returns(r) =>
         /\ DOMAIN LEX_PLAYERS' = DOMAIN LEX_PLAYERS
         /\ \A id \in DOMAIN LEX_PLAYERS :
                /\ Identity(LEX_PLAYERS'[id]) = Identity(LEX_PLAYERS[id])
                /\ Triple(LEX_PLAYERS'[id]) # Triple(LEX_PLAYERS[id]) =>
                        \E i \in TasksOf(r) : runs[r].players[i].discordId = id]_vars

\* C26 happens: a refresh that read one player has written that player's
\* new rating, at a later time than the registration, while a second
\* member had registered in the meantime.
C26_Witness ==
    /\ \E r \in DOMAIN runs :
            /\ runs[r].pc = "done"
            /\ runs[r].summary = Summary(1, 1, 0, FALSE)
    /\ DOMAIN LEX_PLAYERS = {1, 2}
    /\ LEX_PLAYERS[1].skill = 1500
    /\ LEX_PLAYERS[1].lastStatsUpdate = 1
    /\ LEX_PLAYERS[1].registeredAt = 0

\* C27: register and registeruser create or change a row only when the
\* lookup found a player; when it found none (NotFound) or failed, the
\* table is as it was.
C27_RegisterOnlyWhenFound ==
    [][(Replies("register") \/ Replies("registeruser")) =>
        (~Found(call'.fr) => LEX_PLAYERS' = LEX_PLAYERS)]_vars

====
